---- MODULE Spec2Model ----
(***************************************************************************)
(* Model of the fluxo export middleware: the task manager                  *)
(* (pkg/taskmanager), the StreamExport handler (pkg/grpc), the temporary   *)
(* file store (pkg/storage), the format writers (pkg/writer) and the OSS   *)
(* uploader (pkg/oss).                                                     *)
(*                                                                         *)
(* One stream is one call of Server.StreamExport; it creates at most one   *)
(* task, so a stream and its task share the id.  Ids are handed out in     *)
(* creation order (uuid.New() in the code: fresh, never reused).           *)
(***************************************************************************)
EXTENDS Integers, Sequences, FiniteSets, TLC

\* ---- bounds of the model ----
NumTasks == 2          \* streams opened during one run
Submissions == 3       \* streams opened during one run of the admission scenario
QueueSize == 1         \* cfg.Concurrency.TaskQueueSize of the run
MaxConcurrent == 1     \* cfg.Concurrency.MaxConcurrentTasks of the run
MaxRecords == 1        \* records a client sends on one stream
MaxBatch == 1          \* records in one batch frame
MaxRetries == 1        \* cfg.OSS.MaxRetries of the run
NumColumns == 1        \* columns declared in the metadata of every stream
LargeBatch == 60000    \* records in one batch frame of the bulk scenario
LargeBatches == 2      \* batch frames on one stream of the bulk scenario
StreamRecords == 3     \* records on the stream of the record scenario
StreamBatch == 2       \* records in one batch frame of the record scenario
FifoQueueSize == 2     \* cfg.Concurrency.TaskQueueSize of the queue scenario
MaxHeaders == 2        \* WriteHeader calls that succeed in the writer scenario
MaxCleanups == 2       \* Cleanup calls in the writer scenario
PartSize == 2          \* cfg.OSS.PartSize, in bytes
MaxFileSize == 5       \* bytes of the largest file handed to Upload
NumUploads == 2        \* calls of Upload in the uploader scenario

\* ---- program constants ----
ProgressK == 1000      \* denominator offset of the progress estimate
FlushEvery == 1000     \* the writers flush when rowCount is a multiple of this

Workers == 1..MaxConcurrent

\* TaskStatus (iota constants)
StatusQueued == "Queued"
StatusProcessing == "Processing"
StatusUploading == "Uploading"
StatusCompleted == "Completed"
StatusFailed == "Failed"

\* pb.ExportFormat values that pass validateMetadata: the two the workers
\* know and any other non-zero enum number a client may put on the wire.
Formats == {"FORMAT_CSV", "FORMAT_EXCEL", "FORMAT_OTHER"}

VARIABLES
    tasks,        \* Manager.tasks: task id -> Task
    taskQueue,    \* Manager.taskQueue: buffered channel, a sequence of ids
    activeTasks,  \* Manager.activeTasks
    shutdown,     \* Manager.shutdownCtx is cancelled
    wpc,          \* worker goroutine: "idle" (in select), "processing", "exited"
    wtask,        \* the task a worker is running processTask on (0: none)
    files,        \* storage.Manager.files: the task ids with a tracked entry
    disk,         \* temp files that exist on disk (one path per task id)
    writers,      \* the writer.Writer objects the workers built, by task id
    oss,          \* object keys published in the bucket (one key per task id)
    hpc,          \* StreamExport handler of each stream: where it stands, or how
                  \* it returned ("rejected": failed to create task, "err_header":
                  \* failed to write headers, "err_stream": stream error,
                  \* "err_write": failed to write records, "err_finalize": failed
                  \* to finalize export, "done": final response sent)
    recordCount,  \* StreamExport's local recordCount
    crashed,      \* a handler goroutine panicked: the process is gone
    resp,         \* the ExportResponse each stream was closed with, by id
    refused,      \* the last first frame StreamExport returned
                  \* InvalidArgument for (a sequence of length 0 or 1)
    hist,         \* history: every value assigned to task.Status, in order
    late,         \* history: the tasks whose CreateTask call began after
                  \* Manager.Shutdown was called
    mainpc,       \* where main is: "serving" (waiting on sigChan),
                  \* "stopping" (in grpcServer.Stop), "stopped" (about to
                  \* call Manager.Shutdown), "joining" (in Manager.Shutdown),
                  \* "exited" (main returned: the process is gone)
    up,           \* the call of Uploader.Upload that is followed step by
                  \* step (see UploadCall)
    nonbatch,     \* history: the streams on which a frame that is not a
                  \* batch arrived after the first frame (kept in
                  \* NextProtocol only)
    ret           \* what the last call made by the driver of a unit
                  \* scenario returned (see NextWriter)

vars == <<tasks, taskQueue, activeTasks, shutdown, wpc, wtask, files, disk,
          writers, oss, hpc, recordCount, crashed, resp, refused, hist,
          late, mainpc, up, nonbatch, ret>>

Created == DOMAIN tasks

\* ---------------------------------------------------------------------
\* Task records

\* pb.ExportMetadata, the fields StreamExport and the manager read.
\* Enum fields are open: a client can put any number on the wire
\* ("FORMAT_OTHER", "DATA_TYPE_OTHER": a number the package does not know).
ColumnDefs ==
    [Name : {"", "col"},
     DataType : {"DATA_TYPE_UNSPECIFIED", "DATA_TYPE_STRING", "DATA_TYPE_OTHER"}]

ColumnLists == UNION {[1..n -> ColumnDefs] : n \in 0..NumColumns}

Metadatas ==
    [RequestId : {"", "req"},
     Format : Formats \cup {"FORMAT_UNSPECIFIED"},
     Filename : {"", "export"},
     Columns : ColumnLists]

\* the metadata of a client that declares NumColumns string columns and asks
\* for format fmt
ClientMetadata(fmt) ==
    [RequestId |-> "req", Format |-> fmt, Filename |-> "export",
     Columns |-> [i \in 1..NumColumns |->
                     [Name |-> "col", DataType |-> "DATA_TYPE_STRING"]]]

\* CreateTask: the Task literal
NewTask(metadata) ==
    [Status |-> StatusQueued, Format |-> metadata.Format, Metadata |-> metadata,
     RecordsProcessed |-> 0,
     ProgressPercent |-> 0, OSSUrl |-> "", FileSizeBytes |-> 0,
     ErrorMessage |-> "", ErrorCode |-> "", CompletionTime |-> 0,
     Writer |-> FALSE, LocalPath |-> FALSE]

\* no FileMetadata (Finalize's nil result)
NoMeta == [Size |-> 0, RowCount |-> 0, Checksum |-> <<>>]

\* the value of ret before any call: the last call (op), its error and
\* FileMetadata, and what the driver has done so far: the WriteHeader calls
\* that succeeded, the records of the WriteRecords calls that succeeded,
\* whether a write call failed, the Cleanup calls; for the store, the task
\* id the call was made for, the ids CreateTempFile was called for, the
\* ids DeleteFile returned nil for, and those of them whose file was
\* missing at that moment
NoCall ==
    [op |-> "", err |-> "", meta |-> NoMeta, headers |-> 0, records |-> 0,
     failed |-> FALSE, cleanups |-> 0,
     arg |-> 0, allocated |-> {}, released |-> {}, missing |-> {}]

\* the state of up while no call of Upload is followed.  pc is the position
\* in Upload / multiPartUpload; size is fileInfo.Size(); strategies lists
\* the strategy each iteration of the loop chose; parts is the parts slice
\* (with the offset and size each part was requested with); completed
\* holds the arguments of the last CompleteMultipartUpload;
\* attempt and lastErr are the loop's variables; partNum is the part being
\* uploaded; imur is the multipart upload of the current run (0: none) and
\* initiated counts the uploads initiated so far; open is the set of
\* initiated uploads that are neither completed nor aborted; outcomes is the
\* history of the errors the runs of the strategy ended with ("" for
\* nil); cause says which step made Upload return its error ("" for nil);
\* calls counts the calls of Upload so far.
NoUpload ==
    [pc |-> "idle", size |-> 0, attempt |-> 0, lastErr |-> "",
     partNum |-> 0, imur |-> 0, initiated |-> 0, open |-> {},
     outcomes |-> <<>>, cause |-> "", calls |-> 0,
     strategies |-> <<>>, parts |-> <<>>, completed |-> <<>>]

Init ==
    /\ tasks = <<>>
    /\ taskQueue = <<>>
    /\ activeTasks = 0
    /\ shutdown = FALSE
    /\ wpc = [w \in Workers |-> "idle"]
    /\ wtask = [w \in Workers |-> 0]
    /\ files = {}
    /\ disk = {}
    /\ writers = <<>>
    /\ oss = {}
    /\ hpc = <<>>
    /\ recordCount = <<>>
    /\ crashed = FALSE
    /\ resp = <<>>
    /\ refused = <<>>
    /\ hist = <<>>
    /\ late = {}
    /\ mainpc = "serving"
    /\ up = NoUpload
    /\ nonbatch = {}
    /\ ret = NoCall

\* ---------------------------------------------------------------------
\* Task records: the critical sections that write a Task under task.mu

\* mutant: the error is recorded but the status is left as it was
QueueTimeoutTask_StatusKept(task) ==
    [task EXCEPT !.ErrorCode = "QUEUE_TIMEOUT",
                 !.ErrorMessage = "Task queue is full, timeout waiting for slot"]

\* time.Now() as read when a task's CompletionTime is written.  0 is the
\* zero time.Time; every read of the clock is a new value, so a second write
\* to the same task would show as a change.
Now(task) == task.CompletionTime + 1

\* CreateTask, the time.After branch of the select
QueueTimeoutTask(task) ==
    [task EXCEPT !.Status = StatusFailed,
                 !.ErrorCode = "QUEUE_TIMEOUT",
                 !.ErrorMessage = "Task queue is full, timeout waiting for slot"]

\* processTask: "Update status to processing"
\* mutant: the dequeued task keeps its status
MarkProcessing_Keep(task) == task

MarkProcessing(task) == [task EXCEPT !.Status = StatusProcessing]

\* mutant: the error code is not recorded
FailedTask_NoCode(task, code, msg, t) ==
    [task EXCEPT !.Status = StatusFailed, !.ErrorMessage = msg,
                 !.CompletionTime = t]

\* failTask: the locked block
FailedTask(task, code, msg, t) ==
    [task EXCEPT !.Status = StatusFailed, !.ErrorCode = code,
                 !.ErrorMessage = msg, !.CompletionTime = t]

\* mutant: the task is marked Completed before the upload has run
MarkUploading_AsCompleted(task, meta) ==
    [task EXCEPT !.Status = StatusCompleted, !.FileSizeBytes = meta.Size,
                 !.RecordsProcessed = meta.RowCount]

\* FinalizeTask: "Update task" after Writer.Finalize
MarkUploading(task, meta) ==
    [task EXCEPT !.Status = StatusUploading, !.FileSizeBytes = meta.Size,
                 !.RecordsProcessed = meta.RowCount]

\* mutant: the signed URL is not copied to the task
MarkCompleted_NoUrl(task, result, t) ==
    [task EXCEPT !.Status = StatusCompleted, !.CompletionTime = t]

\* FinalizeTask: "Update task as completed"
MarkCompleted(task, result, t) ==
    [task EXCEPT !.Status = StatusCompleted, !.OSSUrl = result.SignedURL,
                 !.CompletionTime = t]

\* UpdateTaskProgress: the locked block
UpdateTaskProgress(task, recordsProcessed, progressPercent) ==
    [task EXCEPT !.RecordsProcessed = recordsProcessed,
                 !.ProgressPercent = progressPercent]

\* convertStatus
convertStatus(status) ==
    CASE status = StatusQueued -> "TASK_STATUS_QUEUED"
      [] status = StatusProcessing -> "TASK_STATUS_PROCESSING"
      [] status = StatusUploading -> "TASK_STATUS_UPLOADING"
      [] status = StatusCompleted -> "TASK_STATUS_COMPLETED"
      [] status = StatusFailed -> "TASK_STATUS_FAILED"
      [] OTHER -> "TASK_STATUS_UNSPECIFIED"

\* GetTaskStatus: the response built under task.mu.RLock for a known id
\* (CompletionTime 0 is the zero time and is left out of the response).
GetTaskStatus(id) ==
    [TaskId |-> id,
     Status |-> convertStatus(tasks[id].Status),
     Format |-> tasks[id].Format,
     RecordsProcessed |-> tasks[id].RecordsProcessed,
     ProgressPercent |-> tasks[id].ProgressPercent,
     OssUrl |-> tasks[id].OSSUrl,
     FileSizeBytes |-> tasks[id].FileSizeBytes,
     ErrorMessage |-> tasks[id].ErrorMessage,
     ErrorCode |-> tasks[id].ErrorCode,
     CompletionTime |-> tasks[id].CompletionTime]

\* the ids a client may ask about: 0 and NumTasks + 1 are never given out
QueryIds == 0..(NumTasks + 1)

\* mutant: the registry lookup is skipped
QueryTaskStatus_Found(id) == [err |-> "", status |-> <<>>]

\* Server.QueryTaskStatus: NotFound for an id that is not in the registry,
\* the status of the task otherwise
QueryTaskStatus(id) ==
    IF id \notin DOMAIN tasks
    THEN [err |-> "NotFound", status |-> <<>>]
    ELSE [err |-> "", status |-> <<GetTaskStatus(id)>>]

\* StreamExport: the ExportResponse literal built from the final status.
\* The literal sets no checksum, so the field has its zero value.
FinalResponse(finalStatus) ==
    [TaskId |-> finalStatus.TaskId,
     Status |-> finalStatus.Status,
     OssUrl |-> finalStatus.OssUrl,
     FileSizeBytes |-> finalStatus.FileSizeBytes,
     RecordCount |-> finalStatus.RecordsProcessed,
     ProgressPercent |-> 10000,
     ChecksumSha256 |-> "",
     CompletionTime |-> finalStatus.CompletionTime]

\* ---------------------------------------------------------------------
\* Writers (CSVWriter / ExcelWriter): kind, rowCount, whether the handle was
\* closed by Finalize or Cleanup.

\* The rows of a file, and the records of a batch, are kept as a sequence of
\* runs: [kind, first, last, fields] stands for the rows numbered first..last
\* in this order, each with `fields` values.  A client numbers its records
\* 1, 2, ... in the order it sends them; the header row has number 0.
RunLen(r) == r.last - r.first + 1

RECURSIVE BatchLen(_)
\* len(batch.Records)
BatchLen(records) ==
    IF records = <<>> THEN 0 ELSE RunLen(Head(records)) + BatchLen(Tail(records))

RECURSIVE TakeRecords(_, _)
\* the first k records of a batch
TakeRecords(records, k) ==
    IF k = 0 \/ records = <<>> THEN <<>>
    ELSE LET r == Head(records) IN
         IF RunLen(r) >= k
         THEN <<[r EXCEPT !.last = r.first + k - 1]>>
         ELSE <<r>> \o TakeRecords(Tail(records), k - RunLen(r))

\* the next n records of a client that has sent rc records, each with f
\* fields, as one batch
Batch(rc, n, f) ==
    IF n = 0 THEN <<>>
    ELSE <<[kind |-> "record", first |-> rc + 1, last |-> rc + n, fields |-> f]>>

\* a batch of Len(f) records of a client that has sent rc records, the i-th
\* of them with f[i] fields
RaggedBatch(rc, f) ==
    [i \in 1..Len(f) |->
        [kind |-> "record", first |-> rc + i, last |-> rc + i, fields |-> f[i]]]

\* the numbers of fields a client may put in a record
FieldCounts == {NumColumns - 1, NumColumns, NumColumns + 1}

\* mutant: the row is put at the front of the file
AppendRows_Front(rows, r) == <<r>> \o rows

\* one more run at the end of a file (a run that continues the last one is
\* joined to it: a file has no batch boundaries)
AppendRows(rows, r) ==
    IF /\ rows # <<>>
       /\ rows[Len(rows)].kind = r.kind
       /\ rows[Len(rows)].fields = r.fields
       /\ rows[Len(rows)].last + 1 = r.first
    THEN [rows EXCEPT ![Len(rows)].last = r.last]
    ELSE Append(rows, r)

RECURSIVE WriteRows(_, _)
\* for _, record := range records: write it
WriteRows(rows, records) ==
    IF records = <<>> THEN rows
    ELSE WriteRows(AppendRows(rows, Head(records)), Tail(records))

\* NewCSVWriter() / NewExcelWriter(): no csv.Writer or stream writer yet
\* (init), no file handle, no output path (path)
EmptyWriter(fmt) ==
    [kind |-> fmt, rowCount |-> 0, rows |-> <<>>, closed |-> FALSE,
     init |-> FALSE, path |-> FALSE]

\* Initialize that succeeds: the path is kept, the file is created (CSV) or
\* a new workbook is started (Excel); rowCount is not reset
WriterInitialize(w) ==
    [w EXCEPT !.init = TRUE, !.path = TRUE, !.rows = <<>>, !.closed = FALSE]

\* a writer as processTask leaves it: constructed and initialized
NewWriter(fmt) == WriterInitialize(EmptyWriter(fmt))

\* mutant: the header row is written but not counted
WriterWriteHeader_NoCount(w, columns) ==
    [w EXCEPT !.rows = AppendRows(@, [kind |-> "header", first |-> 0,
                                      last |-> 0, fields |-> Len(columns)])]

\* WriteHeader: one row with the column names
WriterWriteHeader(w, columns) ==
    [w EXCEPT !.rowCount = @ + 1,
              !.rows = AppendRows(@, [kind |-> "header", first |-> 0,
                                      last |-> 0, fields |-> Len(columns)])]

\* WriteRecords: the records are written in the order of the slice (all of
\* the batch, or those before an error); no record is checked against the
\* declared columns
WriterWriteRecords(w, records) ==
    [w EXCEPT !.rowCount = @ + BatchLen(records),
              !.rows = WriteRows(@, records)]

\* WriteRecords flushes when the row count is a multiple of FlushEvery; only
\* then can a successful batch of n rows report a flush error.
FlushDue(w, n) == (w.rowCount + n) % FlushEvery = 0

\* calculateChecksum: the hex form of a SHA-256 digest of the file's
\* content (never the empty string, whatever the content)
Checksum(rows) == <<"sha256", rows>>

\* mutant: Finalize reports no rows
FileMetadata_NoRows(w) ==
    [Size |-> w.rowCount, RowCount |-> 0, Checksum |-> Checksum(w.rows)]

\* Finalize: the FileMetadata (a row is one unit of size)
FileMetadata(w) ==
    [Size |-> w.rowCount, RowCount |-> w.rowCount, Checksum |-> Checksum(w.rows)]

\* Cleanup: close the handle
WriterCleanup(w) == [w EXCEPT !.closed = TRUE]

\* mutant: Cleanup leaves the file where it is
RemoveOutput_Keep(d, w, id) == d

\* Cleanup: if w.outputPath != "" { os.Remove(w.outputPath) }
RemoveOutput(d, w, id) == IF w.path THEN d \ {id} ELSE d

\* ---------------------------------------------------------------------
\* StreamExport helpers

\* recordCount += len(batch.Records)
NextRecordCount(rc, n) == rc + n

\* progress := float32(recordCount) / float32(recordCount+1000) * 100, and
\* "if progress > 100 { progress = 99 }"; kept in hundredths of a percent
Progress(rc) ==
    LET p == (rc * 10000) \div (rc + ProgressK)
    IN  IF p > 10000 THEN 9900 ELSE p

\* ---------------------------------------------------------------------
\* Uploader.Upload: statOK is os.Stat on the local file, attempts[i] whether
\* the i-th run of the strategy succeeds, signOK whether SignURL succeeds.
\* The loop stops at the first successful attempt.
UploadTries(attempts) ==
    IF \E i \in 1..Len(attempts) : attempts[i]
    THEN CHOOSE i \in 1..Len(attempts) :
            attempts[i] /\ \A j \in 1..(i - 1) : ~attempts[j]
    ELSE Len(attempts)

\* mutant: the error of the last attempt is dropped and a URL is signed
Upload_IgnoreLastErr(id, statOK, attempts, signOK) ==
    IF ~statOK
    THEN [err |-> TRUE, published |-> FALSE, SignedURL |-> "", tries |-> 0]
    ELSE LET n == UploadTries(attempts)
         IN  IF ~signOK
             THEN [err |-> TRUE, published |-> attempts[n], SignedURL |-> "",
                   tries |-> n]
             ELSE [err |-> FALSE, published |-> attempts[n],
                   SignedURL |-> "https://oss/signed", tries |-> n]

Upload(id, statOK, attempts, signOK) ==
    IF ~statOK
    THEN [err |-> TRUE, published |-> FALSE, SignedURL |-> "", tries |-> 0]
    ELSE LET n == UploadTries(attempts)
             lastErr == ~attempts[n]
         IN  IF lastErr
             THEN [err |-> TRUE, published |-> FALSE, SignedURL |-> "", tries |-> n]
             ELSE IF ~signOK
             THEN [err |-> TRUE, published |-> TRUE, SignedURL |-> "", tries |-> n]
             ELSE [err |-> FALSE, published |-> TRUE,
                   SignedURL |-> "https://oss/signed", tries |-> n]

AttemptSeqs == [1..(MaxRetries + 1) -> BOOLEAN]

\* what Upload can return for the file of task id on the disk d: os.Stat
\* fails when the file is gone and may fail otherwise
UploadOutcomes(id, d) ==
    {Upload(id, statOK, attempts, signOK) :
        statOK \in (IF id \in d THEN BOOLEAN ELSE {FALSE}),
        attempts \in AttemptSeqs, signOK \in BOOLEAN}

\* ---------------------------------------------------------------------
\* Uploader.Upload step by step, for one call at a time.

\* the errors an OSS request can end with: a timeout or transport error,
\* or a structural one (key denied, bucket missing, malformed request);
\* "" is nil
OSSErrors == {"", "transport", "structural"}

\* mutant: a file of exactly the part size goes the multipart way
UseMultipart_AtThreshold(size) == size >= PartSize

\* "Choose upload strategy based on file size"
UseMultipart(size) == size > PartSize

\* mutant: a last part shorter than the part size is not counted
PartCount_Floor(size) == size \div PartSize

\* "Calculate part count"
PartCount(size) ==
    IF size % PartSize # 0 THEN size \div PartSize + 1 ELSE size \div PartSize

\* offset := int64(partNum-1) * partSize
PartOffset(partNum) == (partNum - 1) * PartSize

\* size := partSize, or what is left of the file after offset
PartLength(partNum, size) ==
    IF PartOffset(partNum) + PartSize > size
    THEN size - PartOffset(partNum) ELSE PartSize

\* the entity tag OSS gives the part partNum of the upload imur
ETag(imur, partNum) == <<imur, partNum>>

\* bucket.UploadPartFromFile that succeeds: the oss.UploadPart it returns
\* (with the byte range that was asked for)
UploadPartFromFile(imur, offset, size, partNum) ==
    [PartNumber |-> partNum, ETag |-> ETag(imur, partNum),
     offset |-> offset, size |-> size]

\* mutant: the loop has no break
LoopContinues_NoBreak(attempt, lastErr) == attempt < MaxRetries

\* the for loop goes round again: no break, and attempt + 1 <= MaxRetries
LoopContinues(attempt, lastErr) == lastErr # "" /\ attempt < MaxRetries

\* the strategy returned e: lastErr is set, the loop breaks on nil, goes
\* round again, or ends with lastErr # nil and Upload returns the error
EndAttempt(u, e) ==
    LET v == [u EXCEPT !.lastErr = e, !.outcomes = Append(@, e),
                       !.partNum = 0, !.imur = 0, !.parts = <<>>]
    IN  IF LoopContinues(u.attempt, e)
        THEN [v EXCEPT !.pc = "attempt", !.attempt = @ + 1]
        ELSE IF e = ""
        THEN [v EXCEPT !.pc = "sign"]
        ELSE [v EXCEPT !.pc = "returned", !.cause = "upload"]

\* the frame of the uploader's steps
UploaderFrame ==
    UNCHANGED <<mainpc, late, nonbatch, ret, resp, refused, tasks, taskQueue, activeTasks,
                shutdown, wpc, wtask, files, disk, writers, oss, hpc,
                recordCount, crashed, hist>>

\* Upload is called (for the first time, or after the call before it has
\* returned: what OSS holds stays): os.Stat, then the loop is entered with
\* attempt 0
UploadCall(statOK, size) ==
    /\ up.pc \in {"idle", "returned"}
    /\ LET u == [NoUpload EXCEPT !.initiated = up.initiated, !.open = up.open,
                                 !.calls = up.calls + 1]
       IN  up' = IF statOK
                 THEN [u EXCEPT !.pc = "attempt", !.size = size]
                 ELSE [u EXCEPT !.pc = "returned", !.cause = "stat"]
    /\ UploaderFrame

\* simpleUpload: PutObjectFromFile
SimpleUpload(e) ==
    /\ up.pc = "attempt" /\ ~UseMultipart(up.size)
    /\ up' = EndAttempt([up EXCEPT !.strategies = Append(@, "put")], e)
    /\ UploaderFrame

\* multiPartUpload: InitiateMultipartUpload
InitiateMultipart(e) ==
    /\ up.pc = "attempt" /\ UseMultipart(up.size)
    /\ LET u == [up EXCEPT !.strategies = Append(@, "multipart")] IN
       up' = IF e = ""
             THEN [u EXCEPT !.pc = "mp_open", !.initiated = @ + 1,
                            !.imur = up.initiated + 1,
                            !.open = @ \cup {up.initiated + 1}]
             ELSE EndAttempt(u, e)
    /\ UploaderFrame

\* multiPartUpload: os.Open and file.Stat; on an error it returns at once
OpenFile(ok) ==
    /\ up.pc = "mp_open"
    /\ up' = IF ok
             THEN IF 1 <= PartCount(up.size)
                  THEN [up EXCEPT !.pc = "mp_part", !.partNum = 1]
                  ELSE [up EXCEPT !.pc = "mp_complete"]
             ELSE EndAttempt(up, "local")
    /\ UploaderFrame

\* multiPartUpload: UploadPartFromFile for part partNum; on an error
\* AbortMultipartUpload (its result is dropped; it is taken to succeed)
UploadPart(e) ==
    /\ up.pc = "mp_part"
    /\ up' = IF e = ""
             THEN LET part == UploadPartFromFile(up.imur,
                                   PartOffset(up.partNum),
                                   PartLength(up.partNum, up.size), up.partNum)
                      u == [up EXCEPT !.parts = Append(@, part)]
                  IN  IF up.partNum + 1 <= PartCount(up.size)
                      THEN [u EXCEPT !.partNum = @ + 1]
                      ELSE [u EXCEPT !.pc = "mp_complete"]
             ELSE EndAttempt([up EXCEPT !.open = @ \ {up.imur}], e)
    /\ UploaderFrame

\* multiPartUpload: CompleteMultipartUpload; on an error
\* AbortMultipartUpload
CompleteMultipart(e) ==
    /\ up.pc = "mp_complete"
    /\ up' = EndAttempt([up EXCEPT !.open = @ \ {up.imur},
                                   !.completed = <<up.imur, up.parts>>], e)
    /\ UploaderFrame

\* generateSignedURL, and Upload returns
SignURL(ok) ==
    /\ up.pc = "sign"
    /\ up' = [up EXCEPT !.pc = "returned", !.cause = IF ok THEN "" ELSE "sign"]
    /\ UploaderFrame

\* ---------------------------------------------------------------------
\* storage.Manager.DeleteFile: drop the entry and remove its file; an id
\* without an entry is an error and nothing is removed.

\* mutant: every id has a path
GetFilePath_Found(entries, id) == ""

\* storage.Manager.GetFilePath: the error it returns ("" for nil)
GetFilePath(entries, id) ==
    IF id \in entries THEN "" ELSE "file not found for task"

\* mutant: the entry is kept
DeleteFileEntries_Keep(entries, id) == entries

DeleteFileEntries(entries, id) == entries \ {id}

\* mutant: the entry is dropped but the file is left on disk
DeleteFileDisk_Leave(d, entries, id) == d

DeleteFileDisk(d, entries, id) == IF id \in entries THEN d \ {id} ELSE d

\* ---------------------------------------------------------------------
\* failTask: mark the task failed, then Writer.Cleanup if a writer is set
\* and storage.DeleteFile if a local path is set.  Writes tasks, hist,
\* writers, disk and files.
failTask(id, code, msg) ==
    /\ tasks' = [tasks EXCEPT ![id] = FailedTask(@, code, msg, Now(@))]
    /\ hist' = [hist EXCEPT ![id] = Append(@, tasks'[id].Status)]
    /\ writers' = IF tasks[id].Writer
                  THEN [writers EXCEPT ![id] = WriterCleanup(@)]
                  ELSE writers
    /\ LET cleaned == IF tasks[id].Writer THEN disk \ {id} ELSE disk IN
       disk' = IF tasks[id].LocalPath
               THEN DeleteFileDisk(cleaned, files, id) ELSE cleaned
    /\ files' = IF tasks[id].LocalPath THEN DeleteFileEntries(files, id) ELSE files

\* ---------------------------------------------------------------------
\* Server.StreamExport up to CreateTask: the first frame

\* validateMetadata: the error message, "" for nil
validateMetadata(metadata) ==
    IF metadata.RequestId = "" THEN "request_id is required"
    ELSE IF metadata.Format = "FORMAT_UNSPECIFIED" THEN "format must be specified"
    ELSE IF metadata.Filename = "" THEN "filename is required"
    ELSE IF Len(metadata.Columns) = 0 THEN "at least one column is required"
    ELSE IF \E i \in 1..Len(metadata.Columns) :
                \/ metadata.Columns[i].Name = ""
                \/ metadata.Columns[i].DataType = "DATA_TYPE_UNSPECIFIED"
    THEN LET i == CHOOSE i \in 1..Len(metadata.Columns) :
                    /\ \/ metadata.Columns[i].Name = ""
                       \/ metadata.Columns[i].DataType = "DATA_TYPE_UNSPECIFIED"
                    /\ \A j \in 1..(i - 1) :
                          /\ metadata.Columns[j].Name # ""
                          /\ metadata.Columns[j].DataType # "DATA_TYPE_UNSPECIFIED"
         IN  IF metadata.Columns[i].Name = ""
             THEN "column name is required"
             ELSE "column data type is required"
    ELSE ""

\* what the first stream.Recv can deliver: an error, a frame without
\* metadata (GetMetadata() is nil), or a metadata frame
FirstFrames ==
    {[err |-> TRUE, metadata |-> <<>>], [err |-> FALSE, metadata |-> <<>>]}
        \cup {[err |-> FALSE, metadata |-> <<m>>] : m \in Metadatas}

\* the message StreamExport returns InvalidArgument with, "" if it goes on
\* to CreateTask
FirstFrameError(frame) ==
    IF frame.err THEN "failed to receive metadata"
    ELSE IF frame.metadata = <<>> THEN "first message must contain metadata"
    ELSE validateMetadata(frame.metadata[1])

\* StreamExport returns InvalidArgument before it calls CreateTask
RefuseFirstFrame(frame) ==
    /\ ~crashed
    /\ FirstFrameError(frame) # ""
    /\ refused' = <<frame>>
    /\ UNCHANGED <<tasks, taskQueue, activeTasks, shutdown, wpc, wtask, files,
                   disk, writers, oss, hpc, recordCount, crashed, resp, hist,
                   late, mainpc, up, nonbatch, ret>>

\* ---------------------------------------------------------------------
\* Manager.CreateTask

\* the task is built and put in the registry; the caller then waits in the
\* select for a queue slot.  The select does not look at shutdownCtx.
CreateTask(metadata) ==
    LET id == Cardinality(Created) + 1 IN
    /\ ~crashed
    /\ tasks' = tasks @@ (id :> NewTask(metadata))
    /\ hist' = hist @@ (id :> <<tasks'[id].Status>>)
    /\ hpc' = hpc @@ (id :> "enqueue")
    /\ recordCount' = recordCount @@ (id :> 0)
    /\ late' = IF shutdown THEN late \cup {id} ELSE late
    /\ UNCHANGED <<mainpc, up, nonbatch, ret, resp, refused, taskQueue, activeTasks, shutdown, wpc,
                   wtask, files, disk, writers, oss, crashed>>

\* mutant: the channel hands out the newest task first
ChanSend_Front(q, task) == <<task>> \o q

\* m.taskQueue <- task: a buffered channel keeps what was sent in the order
\* of the sends
ChanSend(q, task) == Append(q, task)

\* The rest of CreateTask for a manager whose channel has the given
\* capacity (make(chan *Task, capacity) in NewManager).
\* case m.taskQueue <- task: CreateTask returns the task and StreamExport
\* goes on to WriteHeader
Send(id, capacity) ==
    /\ ~crashed
    /\ hpc[id] = "enqueue"
    /\ Len(taskQueue) < capacity
    /\ taskQueue' = ChanSend(taskQueue, id)
    /\ hpc' = [hpc EXCEPT ![id] = "header"]
    /\ UNCHANGED <<mainpc, up, late, nonbatch, ret, resp, refused, tasks, activeTasks, shutdown, wpc, wtask,
                   files, disk, writers, oss, recordCount, crashed, hist>>

\* case <-time.After(QueueTimeout): the queue stayed full; CreateTask
\* returns an error and StreamExport returns ResourceExhausted
SendTimeout(id, capacity) ==
    /\ ~crashed
    /\ hpc[id] = "enqueue"
    /\ Len(taskQueue) = capacity
    /\ tasks' = [tasks EXCEPT ![id] = QueueTimeoutTask(@)]
    /\ hist' = [hist EXCEPT ![id] = Append(@, tasks'[id].Status)]
    /\ hpc' = [hpc EXCEPT ![id] = "rejected"]
    /\ UNCHANGED <<mainpc, up, late, nonbatch, ret, resp, refused, taskQueue, activeTasks, shutdown, wpc,
                   wtask, files, disk, writers, oss, recordCount, crashed>>

\* the two cases of the select for a manager whose channel was made with
\* cfg.Concurrency.TaskQueueSize = QueueSize
Enqueue(id) == Send(id, QueueSize)

EnqueueTimeout(id) == SendTimeout(id, QueueSize)

\* ---------------------------------------------------------------------
\* Manager.worker / Manager.processTask

\* case task := <-m.taskQueue, and processTask up to the point where the
\* temp file is allocated and task.LocalPath is set.  CreateTempFile always
\* returns a nil error, so the STORAGE_ERROR branch is never taken.
WorkerDequeue(w) ==
    /\ ~crashed
    /\ wpc[w] = "idle"
    /\ taskQueue # <<>>
    /\ LET id == Head(taskQueue) IN
        /\ taskQueue' = Tail(taskQueue)
        /\ tasks' = [tasks EXCEPT ![id] = [MarkProcessing(@) EXCEPT !.LocalPath = TRUE]]
        /\ hist' = [hist EXCEPT ![id] = Append(@, tasks'[id].Status)]
        /\ wtask' = [wtask EXCEPT ![w] = id]
        /\ files' = files \cup {id}
    /\ activeTasks' = activeTasks + 1
    /\ wpc' = [wpc EXCEPT ![w] = "processing"]
    /\ UNCHANGED <<mainpc, up, late, nonbatch, ret, resp, refused, shutdown, disk, writers, oss, hpc,
                   recordCount, crashed>>

\* processTask from the format switch to its return (the deferred
\* activeTasks--), after which the worker is back in its select.
\* CSVWriter.Initialize creates the file; ExcelWriter.Initialize does not.
ProcessTask(w) ==
    /\ ~crashed
    /\ wpc[w] = "processing"
    /\ LET id == wtask[w] IN
           \/ /\ tasks[id].Format \notin {"FORMAT_CSV", "FORMAT_EXCEL"}
              /\ failTask(id, "INVALID_FORMAT", "Unsupported export format")
           \/ /\ tasks[id].Format \in {"FORMAT_CSV", "FORMAT_EXCEL"}
              /\ failTask(id, "WRITER_INIT_ERROR", "Failed to initialize writer")
           \/ /\ tasks[id].Format \in {"FORMAT_CSV", "FORMAT_EXCEL"}
              /\ tasks' = [tasks EXCEPT ![id].Writer = TRUE]
              /\ writers' = writers @@ (id :> NewWriter(tasks[id].Format))
              /\ disk' = IF tasks[id].Format = "FORMAT_CSV"
                         THEN disk \cup {id} ELSE disk
              /\ UNCHANGED <<files, hist>>
    /\ activeTasks' = activeTasks - 1
    /\ wpc' = [wpc EXCEPT ![w] = "idle"]
    /\ wtask' = [wtask EXCEPT ![w] = 0]
    /\ UNCHANGED <<mainpc, up, late, nonbatch, ret, resp, refused, taskQueue, shutdown, oss, hpc, recordCount,
                   crashed>>

\* case <-m.shutdownCtx.Done(): return
WorkerExit(w) ==
    /\ ~crashed
    /\ wpc[w] = "idle"
    /\ shutdown
    /\ wpc' = [wpc EXCEPT ![w] = "exited"]
    /\ UNCHANGED <<mainpc, up, late, nonbatch, ret, resp, refused, tasks, taskQueue, activeTasks, shutdown,
                   wtask, files, disk, writers, oss, hpc, recordCount,
                   crashed, hist>>

\* the handlers that have returned
Returned == {id \in Created : hpc[id] \in
                {"rejected", "err_header", "err_stream", "err_write",
                 "err_finalize", "done"}}

\* Manager.Shutdown: m.shutdownCancel().  Where its caller goes next is
\* said where it is called.
Shutdown ==
    /\ ~crashed
    /\ ~shutdown
    /\ shutdown' = TRUE
    /\ UNCHANGED <<up, late, nonbatch, ret, resp, refused, tasks, taskQueue, activeTasks, wpc, wtask,
                   files, disk, writers, oss, hpc, recordCount, crashed,
                   hist>>

\* ---------------------------------------------------------------------
\* storage.Manager.cleanup, run by cleanupLoop on every tick.  expired is
\* the set of entries whose CreatedAt is older than the retention at that
\* tick; os.Remove succeeds on a file that is there and fails on one that
\* is not, and the entry is deleted only when it succeeds.

cleanupEntries(entries, d, expired) == entries \ (expired \cap d)

cleanupDisk(d, expired) == d \ expired

Cleanup(expired) ==
    /\ ~crashed
    /\ expired \subseteq files
    /\ files' = cleanupEntries(files, disk, expired)
    /\ disk' = cleanupDisk(disk, expired)
    /\ UNCHANGED <<mainpc, up, late, nonbatch, ret, resp, refused, tasks, taskQueue,
                   activeTasks, shutdown, wpc, wtask, writers, oss, hpc,
                   recordCount, crashed, hist>>

\* ---------------------------------------------------------------------
\* main after the server has started

\* <-sigChan: SIGINT or SIGTERM arrives
Signal ==
    /\ ~crashed
    /\ mainpc = "serving"
    /\ mainpc' = "stopping"
    /\ UNCHANGED <<up, late, nonbatch, ret, resp, refused, tasks, taskQueue, activeTasks,
                   shutdown, wpc, wtask, files, disk, writers, oss, hpc,
                   recordCount, crashed, hist>>

\* grpcServer.Stop(): GracefulStop returns once every handler has returned
GracefulStop ==
    /\ ~crashed
    /\ mainpc = "stopping"
    /\ Returned = Created
    /\ mainpc' = "stopped"
    /\ UNCHANGED <<up, late, nonbatch, ret, resp, refused, tasks, taskQueue, activeTasks,
                   shutdown, wpc, wtask, files, disk, writers, oss, hpc,
                   recordCount, crashed, hist>>

\* Manager.Shutdown returns, on done or on the 30 s of its context; main
\* closes the storage manager and the uploader (both do nothing) and
\* returns
MainExit ==
    /\ ~crashed
    /\ mainpc = "joining"
    /\ mainpc' = "exited"
    /\ UNCHANGED <<up, late, nonbatch, ret, resp, refused, tasks, taskQueue, activeTasks,
                   shutdown, wpc, wtask, files, disk, writers, oss, hpc,
                   recordCount, crashed, hist>>

\* ---------------------------------------------------------------------
\* Server.StreamExport after CreateTask returned a task

\* task.Writer.WriteHeader(metadata.Columns).  The handler reads task.Writer
\* without waiting for the worker: while it is still nil the call panics
\* and the process dies.  A failed WriteHeader returns without any cleanup.
WriteHeader(id) ==
    /\ ~crashed
    /\ hpc[id] = "header"
    /\ \/ /\ ~tasks[id].Writer
          /\ crashed' = TRUE
          /\ hpc' = [hpc EXCEPT ![id] = "panic"]
          /\ UNCHANGED writers
       \/ /\ tasks[id].Writer
          /\ writers' = [writers EXCEPT ![id] = WriterWriteHeader(@, tasks[id].Metadata.Columns)]
          /\ hpc' = [hpc EXCEPT ![id] = "ingest"]
          /\ UNCHANGED crashed
       \/ /\ tasks[id].Writer
          /\ hpc' = [hpc EXCEPT ![id] = "err_header"]
          /\ UNCHANGED <<writers, crashed>>
    /\ UNCHANGED <<mainpc, up, late, nonbatch, ret, resp, refused, tasks, taskQueue, activeTasks, shutdown,
                   wpc, wtask, files, disk, oss, recordCount, hist>>

\* stream.Recv returns another error: Writer.Cleanup, return codes.Internal
RecvError(id) ==
    /\ ~crashed
    /\ hpc[id] = "ingest"
    /\ writers' = [writers EXCEPT ![id] = WriterCleanup(@)]
    /\ disk' = disk \ {id}
    /\ hpc' = [hpc EXCEPT ![id] = "err_stream"]
    /\ recordCount' = [recordCount EXCEPT ![id] = 0]
    /\ UNCHANGED <<mainpc, up, late, nonbatch, ret, resp, refused, tasks, taskQueue, activeTasks, shutdown,
                   wpc, wtask, files, oss, crashed, hist>>

\* a frame whose GetBatch() is nil: continue (nothing but the stream
\* position changes)
RecvNonBatch(id) ==
    /\ ~crashed
    /\ hpc[id] = "ingest"
    /\ UNCHANGED <<mainpc, up, late, ret, resp, refused, tasks, taskQueue,
                   activeTasks, shutdown, wpc, wtask, files, disk, writers,
                   oss, hpc, recordCount, crashed, hist>>

\* a batch that WriteRecords accepts: count its records and, for CSV only,
\* UpdateTaskProgress
RecvBatch(id, records) ==
    /\ ~crashed
    /\ hpc[id] = "ingest"
    /\ writers' = [writers EXCEPT ![id] = WriterWriteRecords(@, records)]
    /\ LET rc == NextRecordCount(recordCount[id], BatchLen(records)) IN
        /\ recordCount' = [recordCount EXCEPT ![id] = rc]
        /\ tasks' = IF tasks[id].Format = "FORMAT_CSV"
                    THEN [tasks EXCEPT ![id] = UpdateTaskProgress(@, rc, Progress(rc))]
                    ELSE tasks
    /\ UNCHANGED <<mainpc, up, late, nonbatch, ret, resp, refused, taskQueue, activeTasks, shutdown, wpc,
                   wtask, files, disk, oss, hpc, crashed, hist>>

\* a batch on which WriteRecords fails after k rows (k = all of them: the
\* periodic flush failed): Writer.Cleanup, return codes.Internal
RecvBatchError(id, records, k) ==
    LET n == BatchLen(records) IN
    /\ ~crashed
    /\ hpc[id] = "ingest"
    /\ k < n \/ (k = n /\ FlushDue(writers[id], n))
    /\ writers' = [writers EXCEPT ![id] =
                      WriterCleanup(WriterWriteRecords(@, TakeRecords(records, k)))]
    /\ disk' = disk \ {id}
    /\ hpc' = [hpc EXCEPT ![id] = "err_write"]
    /\ recordCount' = [recordCount EXCEPT ![id] = 0]
    /\ UNCHANGED <<mainpc, up, late, nonbatch, ret, resp, refused, tasks, taskQueue, activeTasks, shutdown,
                   wpc, wtask, files, oss, crashed, hist>>

\* ---------------------------------------------------------------------
\* Manager.FinalizeTask, called by StreamExport when stream.Recv returns
\* io.EOF.  A handler that returns gives up its locals (recordCount is reset).

\* io.EOF, then Writer.Finalize fails: failTask(FINALIZE_ERROR), return the
\* error
FinalizeError(id) ==
    /\ ~crashed
    /\ hpc[id] = "ingest"
    /\ failTask(id, "FINALIZE_ERROR", "Failed to finalize file")
    /\ hpc' = [hpc EXCEPT ![id] = "err_finalize"]
    /\ recordCount' = [recordCount EXCEPT ![id] = 0]
    /\ UNCHANGED <<mainpc, up, late, nonbatch, ret, resp, refused, taskQueue, activeTasks, shutdown, wpc,
                   wtask, oss, crashed>>

\* io.EOF, then Writer.Finalize succeeds (the CSV file must still be there
\* to be stat'ed; the Excel file is written by SaveAs): the task moves to
\* Uploading with the file's size and row count
FinalizeWriter(id) ==
    /\ ~crashed
    /\ hpc[id] = "ingest"
    /\ writers[id].kind = "FORMAT_CSV" => id \in disk
    /\ writers' = [writers EXCEPT ![id].closed = TRUE]
    /\ disk' = disk \cup {id}
    /\ tasks' = [tasks EXCEPT ![id] = MarkUploading(@, FileMetadata(writers[id]))]
    /\ hist' = [hist EXCEPT ![id] = Append(@, tasks'[id].Status)]
    /\ hpc' = [hpc EXCEPT ![id] = "upload"]
    /\ UNCHANGED <<mainpc, up, late, nonbatch, ret, resp, refused, taskQueue, activeTasks, shutdown, wpc,
                   wtask, files, oss, recordCount, crashed>>

\* ossUploader.Upload returns an error: failTask(UPLOAD_ERROR).  The object
\* is in the bucket all the same when only the URL signing failed.
UploadError(id, result) ==
    /\ ~crashed
    /\ hpc[id] = "upload"
    /\ result.err
    /\ oss' = IF result.published THEN oss \cup {id} ELSE oss
    /\ failTask(id, "UPLOAD_ERROR", "Failed to upload to OSS")
    /\ hpc' = [hpc EXCEPT ![id] = "err_finalize"]
    /\ recordCount' = [recordCount EXCEPT ![id] = 0]
    /\ UNCHANGED <<mainpc, up, late, nonbatch, ret, resp, refused, taskQueue, activeTasks, shutdown, wpc,
                   wtask, crashed>>

\* ossUploader.Upload returns a result: the task is Completed with the
\* signed URL, storage.DeleteFile removes the temp file, and StreamExport
\* sends the terminal response (GetTaskStatus, stream.SendAndClose)
UploadDone(id, result) ==
    /\ ~crashed
    /\ hpc[id] = "upload"
    /\ ~result.err
    /\ oss' = IF result.published THEN oss \cup {id} ELSE oss
    /\ tasks' = [tasks EXCEPT ![id] = MarkCompleted(@, result, Now(@))]
    /\ hist' = [hist EXCEPT ![id] = Append(@, tasks'[id].Status)]
    /\ files' = DeleteFileEntries(files, id)
    /\ disk' = DeleteFileDisk(disk, files, id)
    /\ resp' = resp @@ (id :> FinalResponse(GetTaskStatus(id)'))
    /\ hpc' = [hpc EXCEPT ![id] = "done"]
    /\ recordCount' = [recordCount EXCEPT ![id] = 0]
    /\ UNCHANGED <<mainpc, up, late, nonbatch, ret, refused, taskQueue, activeTasks, shutdown, wpc,
                   wtask, writers, crashed>>

\* ---------------------------------------------------------------------
\* The program: main starts the manager and the server; clients open up to
\* NumTasks streams and send up to MaxRecords well-formed records on each, in
\* batches of up to MaxBatch.  On SIGINT/SIGTERM main calls grpcServer.Stop()
\* (GracefulStop: no new stream is taken, and it returns once every running
\* StreamExport has returned) and only then Manager.Shutdown.  Here the
\* signal, the wait in GracefulStop and the call of Manager.Shutdown are one
\* step, taken when the last handler has returned; NextShutdown takes them
\* one by one.  The storage reaper is off (cleanup_enabled: false);
\* NextReaper has it on.
Next ==
    \/ \E fmt \in Formats :
            ~shutdown /\ Cardinality(Created) < NumTasks
            /\ CreateTask(ClientMetadata(fmt))
    \/ \E id \in Created : Enqueue(id)
    \/ \E id \in Created : EnqueueTimeout(id)
    \/ \E w \in Workers : WorkerDequeue(w)
    \/ \E w \in Workers : ProcessTask(w)
    \/ \E w \in Workers : WorkerExit(w)
    \/ Returned = Created /\ Shutdown /\ mainpc' = "joining"
    \/ \E id \in Created : WriteHeader(id)
    \/ \E id \in Created : RecvError(id)
    \/ \E id \in Created : RecvNonBatch(id) /\ UNCHANGED nonbatch
    \/ \E id \in Created : \E n \in 0..MaxBatch :
            /\ recordCount[id] + n <= MaxRecords
            /\ RecvBatch(id, Batch(recordCount[id], n, NumColumns))
    \/ \E id \in Created : \E n \in 0..MaxBatch : \E k \in 0..n :
            /\ recordCount[id] + n <= MaxRecords
            /\ RecvBatchError(id, Batch(recordCount[id], n, NumColumns), k)
    \/ \E id \in Created : FinalizeError(id)
    \/ \E id \in Created : FinalizeWriter(id)
    \/ \E id \in Created : \E result \in UploadOutcomes(id, disk) :
            UploadError(id, result)
    \/ \E id \in Created : \E result \in UploadOutcomes(id, disk) :
            UploadDone(id, result)

Spec == Init /\ [][Next]_vars

\* The admission scenario: Submissions clients call CreateTask and every
\* admitted stream stays in flight (its handler waits in stream.Recv for
\* longer than the enqueue timeout), so only CreateTask, the workers and
\* the handlers' WriteHeader take steps.
NextAdmission ==
    \/ \E fmt \in Formats : Cardinality(Created) < Submissions
            /\ CreateTask(ClientMetadata(fmt))
    \/ \E id \in Created : Enqueue(id)
    \/ \E id \in Created : EnqueueTimeout(id)
    \/ \E w \in Workers : WorkerDequeue(w)
    \/ \E w \in Workers : ProcessTask(w)
    \/ \E id \in Created : WriteHeader(id)

SpecAdmission == Init /\ [][NextAdmission]_vars

\* The bulk scenario: every client sends up to LargeBatches batches of
\* LargeBatch records, and the streams are followed up to the end of ingest.
NextBulk ==
    \/ \E fmt \in Formats : Cardinality(Created) < NumTasks
            /\ CreateTask(ClientMetadata(fmt))
    \/ \E id \in Created : Enqueue(id)
    \/ \E w \in Workers : WorkerDequeue(w)
    \/ \E w \in Workers : ProcessTask(w)
    \/ \E id \in Created : WriteHeader(id)
    \/ \E id \in Created :
            /\ recordCount[id] + LargeBatch <= LargeBatch * LargeBatches
            /\ RecvBatch(id, Batch(recordCount[id], LargeBatch, NumColumns))

SpecBulk == Init /\ [][NextBulk]_vars

\* The first-frame scenario: clients open streams with any first frame; the
\* first stream that gets past validation is followed until the worker has
\* set up its task.
NextValidate ==
    \/ \E frame \in FirstFrames : RefuseFirstFrame(frame)
    \/ \E frame \in FirstFrames :
            /\ Created = {}
            /\ FirstFrameError(frame) = ""
            /\ CreateTask(frame.metadata[1])
    \/ \E id \in Created : Enqueue(id)
    \/ \E w \in Workers : WorkerDequeue(w)
    \/ \E w \in Workers : ProcessTask(w)

SpecValidate == Init /\ [][NextValidate]_vars

\* The record scenario: one stream is followed from its first frame to its
\* terminal response; the client sends up to StreamRecords records in
\* batches of up to StreamBatch, with any number of fields in each record.
NextRecords ==
    \/ \E fmt \in Formats : Created = {} /\ CreateTask(ClientMetadata(fmt))
    \/ \E id \in Created : Enqueue(id)
    \/ \E w \in Workers : WorkerDequeue(w)
    \/ \E w \in Workers : ProcessTask(w)
    \/ \E id \in Created : WriteHeader(id)
    \/ \E id \in Created : \E n \in 0..StreamBatch : \E f \in [1..n -> FieldCounts] :
            /\ recordCount[id] + n <= StreamRecords
            /\ RecvBatch(id, RaggedBatch(recordCount[id], f))
    \/ \E id \in Created : \E n \in 0..StreamBatch : \E f \in [1..n -> FieldCounts] :
         \E k \in 0..n :
            /\ recordCount[id] + n <= StreamRecords
            /\ RecvBatchError(id, RaggedBatch(recordCount[id], f), k)
    \/ \E id \in Created : FinalizeWriter(id)
    \/ \E id \in Created : \E result \in UploadOutcomes(id, disk) :
            UploadDone(id, result)

SpecRecords == Init /\ [][NextRecords]_vars

\* The program with main's shutdown sequence taken step by step: the
\* signal may arrive while streams are in flight, no stream is accepted
\* after it, and nothing runs once main has returned.
ServerSteps ==
    \/ \E id \in Created : Enqueue(id)
    \/ \E id \in Created : EnqueueTimeout(id)
    \/ \E w \in Workers : WorkerDequeue(w)
    \/ \E w \in Workers : ProcessTask(w)
    \/ \E w \in Workers : WorkerExit(w)
    \/ \E id \in Created : WriteHeader(id)
    \/ \E id \in Created : \E result \in UploadOutcomes(id, disk) :
            UploadError(id, result)
    \/ \E id \in Created : \E result \in UploadOutcomes(id, disk) :
            UploadDone(id, result)

ClientSteps ==
    \/ \E fmt \in Formats :
            mainpc = "serving" /\ Cardinality(Created) < NumTasks
            /\ CreateTask(ClientMetadata(fmt))
    \/ \E id \in Created : RecvError(id)
    \/ \E id \in Created : RecvNonBatch(id) /\ UNCHANGED nonbatch
    \/ \E id \in Created : \E n \in 0..MaxBatch :
            /\ recordCount[id] + n <= MaxRecords
            /\ RecvBatch(id, Batch(recordCount[id], n, NumColumns))
    \/ \E id \in Created : \E n \in 0..MaxBatch : \E k \in 0..n :
            /\ recordCount[id] + n <= MaxRecords
            /\ RecvBatchError(id, Batch(recordCount[id], n, NumColumns), k)
    \/ \E id \in Created : FinalizeError(id)
    \/ \E id \in Created : FinalizeWriter(id)

MainSteps ==
    \/ GracefulStop
    \/ mainpc = "stopped" /\ Shutdown /\ mainpc' = "joining"
    \/ MainExit

NextShutdown ==
    \/ Signal
    \/ MainSteps
    \/ mainpc # "exited" /\ ServerSteps /\ UNCHANGED mainpc
    \/ mainpc # "exited" /\ ClientSteps /\ UNCHANGED mainpc

\* main, the workers and the handlers are goroutines that run when they
\* can; what a client sends, and when, is up to the client
SpecShutdown ==
    Init /\ [][NextShutdown]_vars
         /\ WF_vars(MainSteps) /\ WF_vars(mainpc # "exited" /\ ServerSteps)

\* The program with the storage reaper on (cleanup_enabled: true): a tick
\* may come at any time and find any of the entries older than the
\* retention.
NextReaper ==
    \/ Next
    \/ \E expired \in SUBSET files : expired # {} /\ Cleanup(expired)

SpecReaper == Init /\ [][NextReaper]_vars

\* The uploader on its own: one call of Upload, for a small or a large
\* file, with every outcome of every request to OSS.
NextUpload ==
    \/ \E statOK \in BOOLEAN, size \in 0..MaxFileSize :
            up.calls < NumUploads /\ UploadCall(statOK, size)
    \/ \E e \in OSSErrors : SimpleUpload(e)
    \/ \E e \in OSSErrors : InitiateMultipart(e)
    \/ \E ok \in BOOLEAN : OpenFile(ok)
    \/ \E e \in OSSErrors : UploadPart(e)
    \/ \E e \in OSSErrors : CompleteMultipart(e)
    \/ \E ok \in BOOLEAN : SignURL(ok)

SpecUpload == Init /\ [][NextUpload]_vars

\* The queue scenario: a manager whose channel holds FifoQueueSize tasks;
\* Submissions clients call CreateTask; no handler goes on to WriteHeader.
NextFifo ==
    \/ \E fmt \in Formats : Cardinality(Created) < Submissions
            /\ CreateTask(ClientMetadata(fmt))
    \/ \E id \in Created : Send(id, FifoQueueSize)
    \/ \E id \in Created : SendTimeout(id, FifoQueueSize)
    \/ \E w \in Workers : WorkerDequeue(w)
    \/ \E w \in Workers : ProcessTask(w)

SpecFifo == Init /\ [][NextFifo]_vars

\* The queue scenario with the workers scheduled fairly: a worker that can
\* take a task, or can finish processTask, does so in the end.  No shutdown
\* signal is raised.
SpecLive ==
    Init /\ [][NextFifo]_vars
         /\ WF_vars(\E w \in Workers : WorkerDequeue(w))
         /\ WF_vars(\E w \in Workers : ProcessTask(w))

\* ---------------------------------------------------------------------
\* The writer scenario: a caller holds one writer (number TheWriter, with
\* the file of that number as its output path) and calls its methods in
\* any order.  It stops writing once a write has failed, and writing and
\* finalizing once the handle is closed.

TheWriter == 1

WriterFrame ==
    UNCHANGED <<mainpc, up, late, nonbatch, resp, refused, tasks, taskQueue,
                activeTasks, shutdown, wpc, wtask, files, oss, hpc,
                recordCount, crashed, hist>>

CallReturns(op, err) == [ret EXCEPT !.op = op, !.err = err, !.meta = NoMeta]

\* NewCSVWriter() / NewExcelWriter()
CallNewWriter(fmt) ==
    /\ writers = <<>>
    /\ writers' = (TheWriter :> EmptyWriter(fmt))
    /\ ret' = CallReturns("NewWriter", "")
    /\ UNCHANGED disk
    /\ WriterFrame

\* Initialize: os.Create (CSV) may fail after the path was stored
CallInitialize ==
    /\ TheWriter \in DOMAIN writers
    /\ ~writers[TheWriter].init
    /\ \/ /\ writers' = [writers EXCEPT ![TheWriter] = WriterInitialize(@)]
          /\ disk' = IF writers[TheWriter].kind = "FORMAT_CSV"
                     THEN disk \cup {TheWriter} ELSE disk
          /\ ret' = CallReturns("Initialize", "")
       \/ /\ writers[TheWriter].kind = "FORMAT_CSV"
          /\ writers' = [writers EXCEPT ![TheWriter].path = TRUE]
          /\ ret' = CallReturns("Initialize", "failed to create CSV file")
          /\ UNCHANGED disk
    /\ WriterFrame

\* WriteHeader: "writer not initialized" is its only test of the state
CallWriteHeader ==
    /\ TheWriter \in DOMAIN writers
    /\ ~writers[TheWriter].closed /\ ~ret.failed
    /\ ret.headers < MaxHeaders
    /\ \/ /\ ~writers[TheWriter].init
          /\ ret' = CallReturns("WriteHeader", "writer not initialized")
          /\ UNCHANGED writers
       \/ /\ writers[TheWriter].init
          /\ writers' = [writers EXCEPT ![TheWriter] =
                            WriterWriteHeader(@, [i \in 1..NumColumns |-> i])]
          /\ ret' = [CallReturns("WriteHeader", "") EXCEPT !.headers = @ + 1]
       \/ /\ writers[TheWriter].init
          /\ ret' = [CallReturns("WriteHeader", "failed to write header")
                        EXCEPT !.failed = TRUE]
          /\ UNCHANGED writers
    /\ UNCHANGED disk
    /\ WriterFrame

\* WriteRecords with the caller's next n records; it may fail after k of
\* them were written and counted
CallWriteRecords(n) ==
    LET records == Batch(ret.records, n, NumColumns) IN
    /\ TheWriter \in DOMAIN writers
    /\ ~writers[TheWriter].closed /\ ~ret.failed
    /\ ret.records + n <= StreamRecords
    /\ \/ /\ ~writers[TheWriter].init
          /\ ret' = CallReturns("WriteRecords", "writer not initialized")
          /\ UNCHANGED writers
       \/ /\ writers[TheWriter].init
          /\ writers' = [writers EXCEPT ![TheWriter] = WriterWriteRecords(@, records)]
          /\ ret' = [CallReturns("WriteRecords", "") EXCEPT !.records = @ + n]
       \/ \E k \in 0..(n - 1) :
          /\ writers[TheWriter].init
          /\ writers' = [writers EXCEPT ![TheWriter] =
                            WriterWriteRecords(@, TakeRecords(records, k))]
          /\ ret' = [CallReturns("WriteRecords", "failed to write record")
                        EXCEPT !.failed = TRUE]
    /\ UNCHANGED disk
    /\ WriterFrame

\* Finalize: flush, close (Excel: SaveAs), stat, checksum
CallFinalize ==
    /\ TheWriter \in DOMAIN writers
    /\ ~writers[TheWriter].closed
    /\ \/ /\ ~writers[TheWriter].init
          /\ ret' = CallReturns("Finalize", "writer not initialized")
          /\ UNCHANGED <<writers, disk>>
       \/ /\ writers[TheWriter].init
          /\ writers[TheWriter].kind = "FORMAT_CSV" => TheWriter \in disk
          /\ writers' = [writers EXCEPT ![TheWriter].closed = TRUE]
          /\ disk' = disk \cup {TheWriter}
          /\ ret' = [CallReturns("Finalize", "")
                        EXCEPT !.meta = FileMetadata(writers[TheWriter])]
       \/ /\ writers[TheWriter].init
          /\ ret' = CallReturns("Finalize", "failed to flush")
          /\ UNCHANGED <<writers, disk>>
    /\ WriterFrame

\* Cleanup: close the handle if there is one, remove the file if there is
\* a path, return nil
CallCleanup ==
    /\ TheWriter \in DOMAIN writers
    /\ ret.cleanups < MaxCleanups
    /\ writers' = [writers EXCEPT ![TheWriter] = WriterCleanup(@)]
    /\ disk' = RemoveOutput(disk, writers[TheWriter], TheWriter)
    /\ ret' = [CallReturns("Cleanup", "") EXCEPT !.cleanups = @ + 1]
    /\ WriterFrame

NextWriter ==
    \/ \E fmt \in Formats : CallNewWriter(fmt)
    \/ CallInitialize
    \/ CallWriteHeader
    \/ \E n \in 0..StreamBatch : CallWriteRecords(n)
    \/ CallFinalize
    \/ CallCleanup

SpecWriter == Init /\ [][NextWriter]_vars

\* ---------------------------------------------------------------------
\* The store scenario: a caller allocates temp files (each task id once),
\* looks paths up and releases them, for any id and in any order, while
\* the files themselves are written and removed by others (a writer's
\* Initialize, Finalize and Cleanup).

StoreFrame ==
    UNCHANGED <<mainpc, up, late, nonbatch, resp, refused, tasks, taskQueue,
                activeTasks, shutdown, wpc, wtask, writers, oss, hpc,
                recordCount, crashed, hist>>

\* CreateTempFile(taskID, extension): the entry is recorded, no file is
\* created
CallCreateTempFile(id) ==
    /\ id \notin ret.allocated
    /\ files' = files \cup {id}
    /\ ret' = [ret EXCEPT !.op = "CreateTempFile", !.arg = id, !.err = "",
                          !.allocated = @ \cup {id}]
    /\ UNCHANGED disk
    /\ StoreFrame

\* the file of a task is created
FileWritten(id) ==
    /\ id \notin disk
    /\ disk' = disk \cup {id}
    /\ UNCHANGED <<files, ret>>
    /\ StoreFrame

\* the file of a task is removed behind the store's back
FileRemoved(id) ==
    /\ id \in disk
    /\ disk' = disk \ {id}
    /\ UNCHANGED <<files, ret>>
    /\ StoreFrame

\* GetFilePath(taskID)
CallGetFilePath(id) ==
    /\ ret' = [ret EXCEPT !.op = "GetFilePath", !.arg = id,
                          !.err = GetFilePath(files, id)]
    /\ UNCHANGED <<files, disk>>
    /\ StoreFrame

\* DeleteFile(taskID)
CallDeleteFile(id) ==
    /\ files' = DeleteFileEntries(files, id)
    /\ disk' = DeleteFileDisk(disk, files, id)
    /\ ret' = IF id \in files
              THEN [ret EXCEPT !.op = "DeleteFile", !.arg = id, !.err = "",
                               !.released = @ \cup {id},
                               !.missing = IF id \in disk THEN @ ELSE @ \cup {id}]
              ELSE [ret EXCEPT !.op = "DeleteFile", !.arg = id,
                               !.err = "file not found for task"]
    /\ StoreFrame

NextStore ==
    \/ \E id \in 1..Submissions : CallCreateTempFile(id)
    \/ \E id \in 1..Submissions : FileWritten(id)
    \/ \E id \in 1..Submissions : FileRemoved(id)
    \/ \E id \in 1..Submissions : CallGetFilePath(id)
    \/ \E id \in 1..Submissions : CallDeleteFile(id)

SpecStore == Init /\ [][NextStore]_vars

\* The protocol scenario: one stream is followed from its first frame to
\* its terminal response; after the first frame the client sends batches
\* and frames that are not batches (a second metadata frame, an empty
\* frame), which are recorded in nonbatch.
NextProtocol ==
    \/ \E fmt \in Formats : Created = {} /\ CreateTask(ClientMetadata(fmt))
    \/ \E id \in Created : Enqueue(id)
    \/ \E w \in Workers : WorkerDequeue(w)
    \/ \E w \in Workers : ProcessTask(w)
    \/ \E id \in Created : WriteHeader(id)
    \/ \E id \in Created : RecvNonBatch(id) /\ nonbatch' = nonbatch \cup {id}
    \/ \E id \in Created : \E n \in 0..StreamBatch :
            /\ recordCount[id] + n <= StreamRecords
            /\ RecvBatch(id, Batch(recordCount[id], n, NumColumns))
    \/ \E id \in Created : RecvError(id)
    \/ \E id \in Created : FinalizeWriter(id)
    \/ \E id \in Created : \E result \in UploadOutcomes(id, disk) :
            UploadError(id, result)
    \/ \E id \in Created : \E result \in UploadOutcomes(id, disk) :
            UploadDone(id, result)

SpecProtocol == Init /\ [][NextProtocol]_vars

\* The manager on its own: its callers call CreateTask and Shutdown in any
\* order (main makes the calls in one order only, see Next).
NextManager ==
    \/ \E fmt \in Formats : Cardinality(Created) < NumTasks
            /\ CreateTask(ClientMetadata(fmt))
    \/ \E id \in Created : Enqueue(id)
    \/ \E id \in Created : EnqueueTimeout(id)
    \/ \E w \in Workers : WorkerDequeue(w)
    \/ \E w \in Workers : ProcessTask(w)
    \/ \E w \in Workers : WorkerExit(w)
    \/ Shutdown /\ UNCHANGED mainpc

SpecManager == Init /\ [][NextManager]_vars

\* =====================================================================
\* Properties

Terminal(id) == tasks[id].Status \in {StatusCompleted, StatusFailed}

Linear == <<StatusQueued, StatusProcessing, StatusUploading, StatusCompleted>>

IsPrefix(s, t) == Len(s) <= Len(t) /\ \A i \in 1..Len(s) : s[i] = t[i]

\* a non-empty prefix of Linear, or a non-empty prefix of its non-terminal
\* part followed by one Failed
LinearHistory(h) ==
    /\ Len(h) >= 1
    /\ \/ IsPrefix(h, Linear)
       \/ /\ Len(h) >= 2
          /\ h[Len(h)] = StatusFailed
          /\ IsPrefix(SubSeq(h, 1, Len(h) - 1), SubSeq(Linear, 1, 3))

\* C1: the values assigned to a task's Status, in order, are a prefix of
\* Queued, Processing, Uploading, Completed, optionally cut short by one
\* move to Failed from a non-terminal state; nothing is assigned after
\* Completed or Failed and no state is entered twice.
C1_StateSequence ==
    \A id \in Created :
        /\ LinearHistory(hist[id])
        /\ tasks[id].Status = hist[id][Len(hist[id])]

\* one task went the whole way to Completed, another was failed from
\* Uploading
C1_Witness ==
    \E a, b \in Created :
        /\ hist[a] = Linear
        /\ hist[b] = <<StatusQueued, StatusProcessing, StatusUploading, StatusFailed>>

\* C2: in every state where a task is Completed its object is published in
\* the bucket and its signed URL is recorded on the task.
C2_CompletedPublished ==
    \A id \in Created :
        tasks[id].Status = StatusCompleted => id \in oss /\ tasks[id].OSSUrl # ""

\* a task is Completed and its terminal response has been sent
C2_Witness ==
    \E id \in Created : tasks[id].Status = StatusCompleted /\ hpc[id] = "done"

\* C3: in every response of a status query the signed URL is non-empty if
\* and only if the status is Completed.
C3_UrlIffCompleted ==
    \A id \in Created :
        GetTaskStatus(id).OssUrl # "" <=> GetTaskStatus(id).Status = "TASK_STATUS_COMPLETED"

\* a completed task is queried next to one that failed after its object was
\* put (the URL signing failed)
C3_Witness ==
    \E a, b \in Created :
        /\ GetTaskStatus(a).Status = "TASK_STATUS_COMPLETED"
        /\ GetTaskStatus(b).Status = "TASK_STATUS_FAILED" /\ b \in oss

\* C4: in every response of a status query the error code is non-empty if
\* and only if the status is Failed.
C4_ErrorCodeIffFailed ==
    \A id \in Created :
        GetTaskStatus(id).ErrorCode # "" <=> GetTaskStatus(id).Status = "TASK_STATUS_FAILED"

\* one task failed by the enqueue timeout, another by failTask
C4_Witness ==
    \E a, b \in Created :
        /\ GetTaskStatus(a).ErrorCode = "QUEUE_TIMEOUT"
        /\ GetTaskStatus(b).ErrorCode = "UPLOAD_ERROR"

\* C5: when StreamExport returns on a WriteHeader failure, a transport error
\* of stream.Recv or a WriteRecords failure, the task is Failed with an
\* error code, the temp file is gone and the store tracks no entry for it.
C5_IngestErrorCleansUp ==
    \A id \in Created :
        hpc[id] \in {"err_header", "err_stream", "err_write"} =>
            /\ tasks[id].Status = StatusFailed
            /\ tasks[id].ErrorCode # ""
            /\ id \notin disk
            /\ id \notin files

\* tasks whose CreateTask call put them in the queue
Admitted == {id \in Created : hpc[id] \notin {"enqueue", "rejected"}}

\* C6: while every admitted task is still in flight, at most
\* QueueSize + MaxConcurrent tasks have been admitted, and every rejected
\* call failed its task with the queue-timeout code.
C6_Admission ==
    (~crashed /\ \A id \in Admitted : ~Terminal(id)) =>
        /\ Cardinality(Admitted) <= QueueSize + MaxConcurrent
        /\ \A id \in Created :
              hpc[id] = "rejected" => tasks[id].ErrorCode = "QUEUE_TIMEOUT"

\* C7: the number of tasks in Processing or Uploading never exceeds the
\* worker count.
C7_ConcurrencyBound ==
    Cardinality({id \in Created :
        tasks[id].Status \in {StatusProcessing, StatusUploading}}) <= MaxConcurrent

Range(q) == {q[i] : i \in 1..Len(q)}

\* what holds of a task whose CreateTask call timed out
Rejected(id) ==
    /\ tasks[id].Status = StatusFailed
    /\ tasks[id].ErrorCode = "QUEUE_TIMEOUT"
    /\ hist[id] = <<StatusQueued, StatusFailed>>
    /\ id \notin Range(taskQueue)
    /\ \A w \in Workers : wtask[w] # id
    /\ ~tasks[id].LocalPath /\ ~tasks[id].Writer

\* C8: when CreateTask times out waiting for a queue slot, the step leaves
\* the queue as it was, and from then on the task is in the registry as
\* Failed with QUEUE_TIMEOUT, is not in the queue and no worker has ever
\* taken it.
C8_QueueTimeout ==
    [][\A id \in Created :
          hpc'[id] = "rejected" =>
              /\ Rejected(id)'
              /\ hpc[id] # "rejected" => taskQueue' = taskQueue]_vars

\* a rejected task whose rival was later dequeued and processed, with the
\* worker back at the queue
C8_Witness ==
    \E a, b \in Created :
        /\ hpc[a] = "rejected"
        /\ tasks[b].Status = StatusUploading
        /\ \A w \in Workers : wpc[w] = "idle"

\* C9: a task has a completion time exactly when it is Completed or Failed,
\* and a completion time once set is never changed.
C9_CompletionTime ==
    [][\A id \in Created :
          /\ Terminal(id)' <=> tasks'[id].CompletionTime # 0
          /\ tasks[id].CompletionTime # 0 =>
                tasks'[id].CompletionTime = tasks[id].CompletionTime]_vars

\* C10: the records_processed of successive status responses for a task
\* never decreases.
C10_RecordsMonotonic ==
    [][\A id \in Created :
          GetTaskStatus(id)'.RecordsProcessed >= GetTaskStatus(id).RecordsProcessed]_vars

\* a CSV task whose count was raised by a progress update during ingest and
\* then overwritten with the writer's row count
C10_Witness ==
    \E id \in Created :
        /\ tasks[id].Format = "FORMAT_CSV"
        /\ tasks[id].Status = StatusUploading
        /\ recordCount[id] >= 1
        /\ tasks[id].RecordsProcessed = recordCount[id] + 1

\* C11: the progress_percent of successive status responses for a task never
\* decreases, lies in [0, 100], and is at most 99 while the task is not
\* Completed (percentages are in hundredths).
C11_ProgressPercent ==
    [][\A id \in Created :
          /\ GetTaskStatus(id)'.ProgressPercent >= GetTaskStatus(id).ProgressPercent
          /\ GetTaskStatus(id)'.ProgressPercent >= 0
          /\ GetTaskStatus(id)'.ProgressPercent <= 10000
          /\ GetTaskStatus(id)'.Status # "TASK_STATUS_COMPLETED" =>
                GetTaskStatus(id)'.ProgressPercent <= 9900]_vars

\* C12: the status response of a Completed task has progress_percent 100.
C12_CompletedProgress ==
    \A id \in Created :
        GetTaskStatus(id).Status = "TASK_STATUS_COMPLETED" =>
            GetTaskStatus(id).ProgressPercent = 10000

\* C13: a Failed task has no object in the bucket and no entry in the
\* temp-file store.
C13_FailedNotPublished ==
    \A id \in Created :
        tasks[id].Status = StatusFailed => id \notin oss /\ id \notin files

\* the handler of task id returned because ossUploader.Upload failed
UploadFailed(id) ==
    /\ hpc[id] = "err_finalize"
    /\ Len(hist[id]) >= 2
    /\ hist[id][Len(hist[id]) - 1] = StatusUploading

\* C14: after the uploader returned an error for a task in Uploading, every
\* status query answers Failed with the upload error code and message and
\* an empty signed URL, the writer is closed, the temp file is gone and the
\* store has no entry for the task.
C14_UploadErrorFails ==
    \A id \in Created :
        UploadFailed(id) =>
            /\ GetTaskStatus(id).Status = "TASK_STATUS_FAILED"
            /\ GetTaskStatus(id).ErrorCode = "UPLOAD_ERROR"
            /\ GetTaskStatus(id).ErrorMessage = "Failed to upload to OSS"
            /\ GetTaskStatus(id).OssUrl = ""
            /\ writers[id].closed
            /\ id \notin disk
            /\ id \notin files

\* the upload of a CSV task failed on every attempt, after its sibling went
\* through
C14_Witness ==
    \E a, b \in Created :
        /\ UploadFailed(a) /\ a \notin oss /\ tasks[a].Format = "FORMAT_CSV"
        /\ tasks[b].Status = StatusCompleted

C16_TerminalResponse ==
    \A id \in Created :
        /\ hpc[id] = "done" =>
              /\ id \in DOMAIN resp
              /\ resp[id].Status = "TASK_STATUS_COMPLETED"
              /\ resp[id].OssUrl # ""
              /\ resp[id].ProgressPercent = 10000
              /\ resp[id].ChecksumSha256 # ""
              /\ resp[id].RecordCount = writers[id].rowCount
        /\ hpc[id] # "done" => id \notin DOMAIN resp

\* what the validation of the first frame is specified to require
WellFormed(metadata) ==
    /\ metadata.RequestId # ""
    /\ metadata.Format \in {"FORMAT_CSV", "FORMAT_EXCEL"}
    /\ metadata.Filename # ""
    /\ Len(metadata.Columns) >= 1
    /\ \A i \in 1..Len(metadata.Columns) :
          /\ metadata.Columns[i].Name # ""
          /\ metadata.Columns[i].DataType = "DATA_TYPE_STRING"

\* C17: a stream whose first frame is not metadata or whose metadata is not
\* well-formed is refused and leaves nothing behind: every task in the
\* registry, in the queue or with a temp file comes from well-formed
\* metadata, and every refused frame left the manager as it was.
C17_InvalidFirstFrame ==
    [][/\ \A id \in DOMAIN tasks' : WellFormed(tasks'[id].Metadata)
       /\ refused' # refused =>
             /\ tasks' = tasks
             /\ taskQueue' = taskQueue
             /\ files' = files]_vars

\* C18: no record whose number of fields differs from the number of
\* declared columns is written to the file of a task, and no task whose
\* stream carried such a record is Completed.
C18_FieldCountChecked ==
    \A id \in DOMAIN writers :
        \A i \in 1..Len(writers[id].rows) :
            writers[id].rows[i].fields = Len(tasks[id].Metadata.Columns)

\* the rows are the header followed by the records numbered 1..n, in order
InArrivalOrder(rows, n) ==
    /\ Len(rows) >= 1
    /\ rows[1].kind = "header" /\ rows[1].first = 0 /\ rows[1].last = 0
    /\ \A i \in 2..Len(rows) :
          /\ rows[i].kind = "record"
          /\ rows[i].first = rows[i - 1].last + 1
          /\ rows[i].last >= rows[i].first
    /\ rows[Len(rows)].last = n

\* C19: while a stream is being ingested, and when its file is finalized,
\* the file holds the header row followed by exactly the records received
\* so far, in the order of arrival.
C19_ArrivalOrder ==
    \A id \in DOMAIN writers :
        hpc[id] \in {"ingest", "upload", "done"} =>
            InArrivalOrder(writers[id].rows,
                           IF hpc[id] = "done" THEN writers[id].rowCount - 1
                           ELSE recordCount[id])

\* a file was finalized after StreamRecords records that took more than one
\* batch, one of them of more than one record
C19_Witness ==
    \E id \in DOMAIN writers :
        /\ hpc[id] = "upload"
        /\ recordCount[id] = StreamRecords
        /\ StreamRecords > StreamBatch /\ StreamBatch > 1

\* C20: a task whose CreateTask call began after Manager.Shutdown was called
\* is never placed in the queue: its call stays in the select or ends with
\* the queue-full error.
C20_NoEnqueueAfterShutdown ==
    \A id \in late :
        /\ id \notin Range(taskQueue)
        /\ hpc[id] \in {"enqueue", "rejected"}

\* the process is gone: main returned, or a handler panicked
ProcessExited == mainpc = "exited" \/ crashed

\* C21: once the shutdown signal is received the process exits.
C21_ShutdownCompletes == (mainpc = "stopping") ~> ProcessExited

PastHeader == {"panic", "ingest", "upload", "done", "err_header",
               "err_stream", "err_write", "err_finalize"}

\* C25: a handler that has called WriteHeader (and so any later writer
\* method) on its task found the task's writer set.
C25_WriterSetBeforeUse ==
    \A id \in Created : hpc[id] \in PastHeader => tasks[id].Writer

\* C29: once the shutdown signal is raised no idle worker takes a task.
C29_NoDequeueAfterShutdown ==
    [][\A w \in Workers :
          (shutdown /\ wpc[w] = "idle") => wpc'[w] # "processing"]_vars

\* Manager.Shutdown has returned on done: every worker has exited
ShutdownComplete == shutdown /\ \A w \in Workers : wpc[w] = "exited"

\* C30: when shutdown is complete no task is left in the queue, Processing
\* or Uploading (such a task has been moved to Failed).
C30_CancelledOnShutdown ==
    ShutdownComplete =>
        \A id \in Created :
            /\ id \notin Range(taskQueue)
            /\ tasks[id].Status \notin {StatusProcessing, StatusUploading}

\* C27: a reaper run removes neither the entry nor the file of a task that
\* is Processing or Uploading, whichever entries have expired.
C27_ReaperSparesActive ==
    [][\A expired \in SUBSET files :
          (/\ expired # {}
           /\ tasks' = tasks /\ hpc' = hpc
           /\ files' = cleanupEntries(files, disk, expired)
           /\ disk' = cleanupDisk(disk, expired))
          => \A id \in Created :
                tasks[id].Status \in {StatusProcessing, StatusUploading}
                => /\ id \in files => id \in files'
                   /\ id \in disk => id \in disk']_vars

\* somebody still works on the task: its handler has not returned, or a
\* worker holds it
Claimed(id) == id \notin Returned \/ \E w \in Workers : wtask[w] = id

\* C28: whichever entries have expired, a reaper run removes every expired
\* entry that nobody claims from the store.
C28_ReaperRemovesExpired ==
    \A expired \in SUBSET files :
        \A id \in expired :
            ~Claimed(id) => id \notin cleanupEntries(files, disk, expired)

\* the runs of the strategy so far all failed
AllFailed(outcomes) == \A i \in 1..Len(outcomes) : outcomes[i] # ""

\* the retry loop of one call: at most MaxRetries + 1 runs, a run only
\* after a failed one, none after a successful one, and every run starts
\* the strategy from its beginning
RetryLoop ==
    /\ Len(up.outcomes) <= MaxRetries + 1
    /\ up.pc \in {"attempt", "mp_open", "mp_part", "mp_complete"}
          => Len(up.outcomes) = up.attempt
    /\ \A i \in 1..(Len(up.outcomes) - 1) : up.outcomes[i] # ""
    /\ up.pc \in {"attempt", "mp_open", "mp_part", "mp_complete"}
          => AllFailed(up.outcomes)
    /\ up.pc = "attempt" => up.partNum = 0 /\ up.imur = 0
    /\ up.pc = "mp_open" => up.partNum = 0 /\ up.imur = up.initiated
    /\ up.pc = "sign" => up.outcomes[Len(up.outcomes)] = ""

\* C22: the retry loop is as above, and Upload returns an error exactly
\* when os.Stat on the local file failed (no run is made then), when
\* MaxRetries + 1 runs were made and all failed, or when signing failed
\* after a successful run.
C22_RetryLoop ==
    /\ RetryLoop
    /\ up.pc = "returned" =>
          /\ up.cause = "stat" <=> up.outcomes = <<>>
          /\ up.cause = "upload" <=>
                Len(up.outcomes) = MaxRetries + 1 /\ AllFailed(up.outcomes)
          /\ up.cause \in {"", "sign"} <=>
                up.outcomes # <<>> /\ up.outcomes[Len(up.outcomes)] = ""

\* a call returned its upload error after MaxRetries + 1 failed runs of the
\* multipart strategy
C22_Witness ==
    /\ up.pc = "returned" /\ up.cause = "upload" /\ UseMultipart(up.size)
    /\ Len(up.outcomes) = MaxRetries + 1

\* C22 as stated: the retry loop is as above, and Upload returns an error
\* exactly when MaxRetries + 1 runs all failed or signing failed.
C22_AsStated ==
    /\ RetryLoop
    /\ up.pc = "returned" =>
          (up.cause # "" <=>
              \/ Len(up.outcomes) = MaxRetries + 1 /\ AllFailed(up.outcomes)
              \/ up.cause = "sign")

\* C23: a run that failed with a structural error is the last run of its
\* call.
C23_StructuralIsTerminal ==
    \A i \in 1..(Len(up.outcomes) - 1) : up.outcomes[i] # "structural"

\* C26: whenever multiPartUpload is not running, every multipart upload
\* that was initiated has been completed or aborted.
C26_NoOrphanMultipart ==
    up.pc \in {"idle", "attempt", "sign", "returned"} => up.open = {}

\* C33: while a stream is being ingested, the task's RecordsProcessed is the
\* number of records received and written so far, whatever the format.
C33_RecordsProcessed ==
    \A id \in Created :
        hpc[id] = "ingest" => tasks[id].RecordsProcessed = recordCount[id]

\* C31: the queue never holds more than its capacity, a task enters it at
\* the tail only, and a task leaves it from the head only, taken by a worker.
C31_FifoBounded ==
    [][/\ Len(taskQueue') <= FifoQueueSize
       /\ taskQueue' # taskQueue =>
            \/ \E id \in Created :
                  /\ hpc[id] = "enqueue"
                  /\ taskQueue' = Append(taskQueue, id)
            \/ \E w \in Workers :
                  /\ taskQueue # <<>>
                  /\ wtask[w] = 0
                  /\ wtask'[w] = Head(taskQueue)
                  /\ taskQueue' = Tail(taskQueue)]_vars

\* the queue is full with two tasks that were enqueued in the opposite
\* order of their creation
C31_Witness ==
    /\ Len(taskQueue) = FifoQueueSize
    /\ \E i, j \in 1..Len(taskQueue) : i < j /\ taskQueue[i] > taskQueue[j]

C32_NonBatchIsError ==
    \A id \in nonbatch :
        /\ hpc[id] \notin {"ingest", "upload", "done"}
        /\ tasks[id].Status # StatusCompleted

\* C32, second half alone: no task whose stream carried such a frame is
\* Completed.
C32_NotCompleted ==
    \A id \in nonbatch : tasks[id].Status # StatusCompleted

\* C34: a WriteHeader call that succeeds is the first one to succeed, a
\* WriteRecords call that succeeds comes after a WriteHeader that
\* succeeded, and the file never holds a second header row or a record
\* row in front of the header.
C34_HeaderOnceAndFirst ==
    /\ ret.op = "WriteHeader" /\ ret.err = "" => ret.headers = 1
    /\ ret.op = "WriteRecords" /\ ret.err = "" => ret.headers >= 1
    /\ \A w \in DOMAIN writers :
          \A i \in 1..Len(writers[w].rows) :
              (writers[w].rows[i].kind = "header") <=> (i = 1)

\* C35: Finalize after one WriteHeader and WriteRecords calls that all
\* succeeded reports one row more than the records passed, a size that is
\* not zero and a checksum that is not empty.
C35_FinalizeMetadata ==
    ret.op = "Finalize" /\ ret.err = "" /\ ret.headers = 1 /\ ~ret.failed
        => /\ ret.meta.RowCount = 1 + ret.records
           /\ ret.meta.Size # 0
           /\ ret.meta.Checksum # <<>>

\* a Finalize after one header and three records reports four rows
C35_Witness ==
    /\ ret.op = "Finalize" /\ ret.err = "" /\ ret.headers = 1 /\ ~ret.failed
    /\ ret.records = 3
    /\ ret.meta.RowCount = 4

\* C36: whatever the writer's state, Cleanup returns no error and when it
\* has returned the output file does not exist.
C36_CleanupAnyState ==
    ret.op = "Cleanup" => ret.err = "" /\ TheWriter \notin disk

\* a second Cleanup, on a writer that was initialized and written to
C36_Witness ==
    /\ ret.op = "Cleanup" /\ ret.cleanups = 2
    /\ writers[TheWriter].init /\ writers[TheWriter].rowCount > 0

\* a Cleanup of a writer that was never initialized
C36_WitnessNew ==
    /\ ret.op = "Cleanup"
    /\ ~writers[TheWriter].init /\ ~writers[TheWriter].path

C38_WitnessMultipart ==
    /\ up.size = PartSize + 1
    /\ up.strategies = <<"multipart", "multipart">>

\* the least n with n * PartSize >= size
CeilParts(size) ==
    CHOOSE n \in 0..size : n * PartSize >= size /\ (n - 1) * PartSize < size

RECURSIVE SumSizes(_)
SumSizes(parts) ==
    IF parts = <<>> THEN 0 ELSE Head(parts).size + SumSizes(Tail(parts))

\* the k-th element of parts is part k of a file of `size` bytes, with
\* the entity tag OSS returned for part k of the upload imur
IsPart(parts, k, size, imur) ==
    /\ parts[k].PartNumber = k
    /\ parts[k].offset = (k - 1) * PartSize
    /\ parts[k].offset + parts[k].size
          = (IF k * PartSize < size THEN k * PartSize ELSE size)
    /\ parts[k].ETag = ETag(imur, k)

\* C39: for every size S > 0 the part count is ceil(S/P) and part k covers
\* [(k-1)*P, min(k*P, S)); the parts uploaded so far are parts 1, 2, ... in this order, each
\* with its byte range; when the loop is left there are ceil(S/P) of them;
\* CompleteMultipartUpload is called with parts 1..ceil(S/P), each with
\* the entity tag returned for its number, all but the last of P bytes,
\* and S bytes in all.
C39_Parts ==
    /\ \A size \in 1..MaxFileSize :
          /\ PartCount(size) = CeilParts(size)
          /\ \A k \in 1..PartCount(size) :
                /\ PartOffset(k) = (k - 1) * PartSize
                /\ PartLength(k, size) > 0
                /\ PartOffset(k) + PartLength(k, size)
                      = (IF k * PartSize < size THEN k * PartSize ELSE size)
    /\ up.pc \in {"mp_part", "mp_complete"} =>
          \A k \in 1..Len(up.parts) : IsPart(up.parts, k, up.size, up.imur)
    /\ up.pc = "mp_part" => Len(up.parts) = up.partNum - 1
    /\ up.pc = "mp_complete" => Len(up.parts) = CeilParts(up.size)
    /\ up.completed # <<>> =>
          LET imur == up.completed[1]
              parts == up.completed[2]
          IN  /\ Len(parts) = CeilParts(up.size)
              /\ \A k \in 1..Len(parts) : IsPart(parts, k, up.size, imur)
              /\ \A k \in 1..(Len(parts) - 1) : parts[k].size = PartSize
              /\ SumSizes(parts) = up.size

\* a file of two full parts and a short one was completed
C39_Witness ==
    /\ up.completed # <<>>
    /\ up.size = 2 * PartSize + 1
    /\ Len(up.completed[2]) = 3
    /\ up.completed[2][3].size = 1

\* a file of exactly two parts was completed
C39_WitnessExact ==
    /\ up.completed # <<>>
    /\ up.size = 2 * PartSize
    /\ Len(up.completed[2]) = 2

====
